---- MODULE Spec2Model ----
(***************************************************************************)
(* Model of qutip/solver/stochastic.py: the construction of a              *)
(* StochasticSolver (measurement operators and dW_factor weights), one     *)
(* trajectory run (_run_one_traj, StochasticTrajResult.add and             *)
(* _add_measurement) and the reduction of trajectories by                  *)
(* StochasticResult.                                                       *)
(***************************************************************************)
EXTENDS Integers, Sequences, FiniteSets, TLC

VARIABLES
    args,        \* the arguments and options StochasticSolver.__init__ is called with
    solver,      \* the solver object: construction status, m_ops, dW_factors
    traj,        \* the frame of _run_one_traj: pc, seed, state, tlist, position, return value
    integrator,  \* self._integrator: what set_state stored and integrate last returned
    result,      \* the StochasticTrajResult of the running trajectory
    calls,       \* the calls _run_one_traj made on its collaborators, in program order
    ens,         \* the StochasticResult: status, processors, measurement, expectation sums
    pool         \* the completed trajectories not yet handed to the StochasticResult

vars == <<args, solver, traj, integrator, result, calls, ens, pool>>

(***************************************************************************)
(* Bounds of the model.                                                    *)
(***************************************************************************)
MaxOps == 2      \* at most this many stochastic collapse operators
MaxSteps == 2    \* at most this many steps after the initial point of a time grid
MaxSub == 2      \* at most this many sub-step rows in one noise increment
MaxTraj == 3     \* at most this many trajectories handed to one StochasticResult

(***************************************************************************)
(* Python values.  A float is (n + s*sqrt(2))/d in lowest terms, which     *)
(* keeps 2**0.5 exact; None and lists carry their own tag.                 *)
(***************************************************************************)
Abs(x) == IF x < 0 THEN -x ELSE x

RECURSIVE GCD(_, _)
GCD(a, b) == IF b = 0 THEN a ELSE GCD(b, a % b)

\* a denominator of 0 is what a division by 0 leaves (inf or nan, no exception)
Norm(n, s, d) ==
    LET g == GCD(GCD(Abs(n), Abs(s)), Abs(d))
        sg == IF d < 0 THEN 0 - 1 ELSE 1
    IN  IF d = 0
        THEN [ty |-> "float", n |-> n, s |-> s, d |-> 0, items |-> <<>>]
        ELSE [ty |-> "float", n |-> (sg * n) \div g, s |-> (sg * s) \div g,
              d |-> (sg * d) \div g, items |-> <<>>]

Float(i) == Norm(i, 0, 1)
None == [ty |-> "None", n |-> 0, s |-> 0, d |-> 1, items |-> <<>>]
List(seq) == [ty |-> "list", n |-> 0, s |-> 0, d |-> 1, items |-> seq]

NAdd(x, y) == Norm(x.n * y.d + y.n * x.d, x.s * y.d + y.s * x.d, x.d * y.d)
NMul(x, y) == Norm(x.n * y.n + 2 * x.s * y.s, x.n * y.s + x.s * y.n, x.d * y.d)
NDivInt(x, k) == Norm(x.n, x.s, x.d * k)

\* bool(v): None, 0 and the empty list are false
Truthy(v) ==
    CASE v.ty = "None" -> FALSE
      [] v.ty = "float" -> ~(v.n = 0 /\ v.s = 0)
      [] v.ty = "list" -> Len(v.items) > 0

\* isinstance(v, Iterable)
IsIterable(v) == v.ty = "list"

(***************************************************************************)
(* Operators (Qobj / QobjEvo) are opaque: a collapse operator, one of the  *)
(* two operators derived from it, or an operator the caller supplied.      *)
(***************************************************************************)
ScOp(i) == [form |-> "op", of |-> i]
UserOp(i) == [form |-> "user", of |-> i]
OpPlusDag(op) == [form |-> "op+op.dag", of |-> op.of]
OpQuadrature(op) == [form |-> "-1j*(op-op.dag)", of |-> op.of]

RECURSIVE Concat(_)
Concat(seqs) == IF seqs = <<>> THEN <<>> ELSE Head(seqs) \o Concat(Tail(seqs))

(***************************************************************************)
(* StochasticSolver.__init__, from the store_measurement test on.          *)
(***************************************************************************)
NChannels(a) == Len(a.sc_ops) * (1 + (IF a.heterodyne THEN 1 ELSE 0))

HeterodyneMOpsSwapped(sc) ==
    Concat([i \in 1..Len(sc) |-> <<OpQuadrature(sc[i]), OpPlusDag(sc[i])>>])

HeterodyneMOps(sc) ==
    Concat([i \in 1..Len(sc) |-> <<OpPlusDag(sc[i]), OpQuadrature(sc[i])>>])

HomodyneMOps(sc) == [i \in 1..Len(sc) |-> OpPlusDag(sc[i])]

Sqrt2 == Norm(0, 1, 1)

\* dW_factor or default
OrDefault(v, default) == IF Truthy(v) THEN v ELSE default

\* the m_ops / dW_factor chosen by the if / elif / else on len(m_ops)
SelectMOps(a) ==
    IF Len(a.m_ops) = NChannels(a)
    THEN [m_ops |-> a.m_ops, dW_factor |-> a.dW_factor]
    ELSE IF a.heterodyne
    THEN [m_ops |-> HeterodyneMOps(a.sc_ops),
          dW_factor |-> OrDefault(a.dW_factor, Sqrt2)]
    ELSE [m_ops |-> HomodyneMOps(a.sc_ops),
          dW_factor |-> OrDefault(a.dW_factor, Float(1))]

\* if not isinstance(dW_factor, Iterable): dW_factor = [dW_factor] * n_m_ops
Broadcast(v, n) == IF ~IsIterable(v) THEN List([i \in 1..n |-> v]) ELSE v

\* [i for i in dW_factor for _ in range(2)] when one weight per sc_op under heterodyne
Duplicate(v, a) ==
    IF Len(v.items) = Len(a.sc_ops) /\ a.heterodyne
    THEN List(Concat([i \in 1..Len(v.items) |-> <<v.items[i], v.items[i]>>]))
    ELSE v

ResolveWeights(a) == Duplicate(Broadcast(SelectMOps(a).dW_factor, NChannels(a)), a)

Unset == <<"unset">>

\* the solver object as __init__ leaves it; raised names the exception, if any
StochasticSolver_init(a) ==
    IF a.store_measurement
    THEN IF Len(ResolveWeights(a).items) # NChannels(a)
         THEN [raised |-> "ValueError", m_ops |-> SelectMOps(a).m_ops, dW_factors |-> Unset]
         ELSE [raised |-> "none", m_ops |-> SelectMOps(a).m_ops,
               dW_factors |-> ResolveWeights(a).items]
    ELSE [raised |-> "none", m_ops |-> <<>>, dW_factors |-> <<>>]

NotBuilt == [raised |-> "pending", m_ops |-> Unset, dW_factors |-> Unset]

\* the solver exists for its caller: __init__ returned
Exposed == solver.raised = "none"

(***************************************************************************)
(* Inputs of a construction.                                               *)
(***************************************************************************)
ScOps(k) == [i \in 1..k |-> ScOp(i)]
UserMOps(k) == [i \in 1..k |-> UserOp(i)]
MaxChannels == 2 * MaxOps + 1

SeqsOf(S, n) == UNION {[1..k -> S] : k \in 0..n}

ScalarWeights == {Float(0), Float(2), Sqrt2}
ListWeights == {Float(2), Float(3)}

DWFactors == {None} \cup ScalarWeights \cup {List(q) : q \in SeqsOf(ListWeights, MaxChannels)}

Args ==
    [sc_ops : {ScOps(k) : k \in 0..MaxOps},
     m_ops : {UserMOps(k) : k \in 0..MaxChannels},
     heterodyne : BOOLEAN,
     store_measurement : BOOLEAN,
     dW_factor : DWFactors]

Idle == <<"idle">>
NoIntegrator == [t |-> 0, state |-> 0, gen |-> [rng |-> 0]]
\* no StochasticTrajResult: none was created yet, or its frame was left by an exception
NoResult == [live |-> FALSE, times |-> <<>>, states |-> <<>>, noise |-> <<>>,
             m_ops |-> <<>>, dW_factor |-> <<>>, measurements |-> <<>>]

InitConfig ==
    /\ args \in Args
    /\ solver = NotBuilt
    /\ traj = Idle /\ integrator = NoIntegrator /\ result = NoResult /\ calls = <<>>
    /\ ens = Idle /\ pool = {}

Construct ==
    /\ solver.raised = "pending"
    /\ solver' = StochasticSolver_init(args)
    /\ UNCHANGED <<args, traj, integrator, result, calls, ens, pool>>

NextConfig == Construct

SpecConfig == InitConfig /\ [][NextConfig]_vars

(***************************************************************************)
(* Claims about the construction (SpecConfig).                             *)
(***************************************************************************)
Built == solver.raised # "pending"
K == Len(args.sc_ops)
NCh == NChannels(args)
DefaultWeight == IF args.heterodyne THEN Norm(0, 1, 1) ELSE Norm(1, 0, 1)

\* C1 (as claimed, on the constructions with store_measurement enabled): a
\* dW_factor sequence whose length is neither n_channels nor, under heterodyne,
\* len(sc_ops) makes the construction fail with the configuration error, and no
\* solver is exposed.
C1_BadLengthRaises ==
    (/\ Built
     /\ args.store_measurement
     /\ args.dW_factor.ty = "list"
     /\ Len(args.dW_factor.items) # NCh
     /\ ~(args.heterodyne /\ Len(args.dW_factor.items) = K))
    => (solver.raised = "ValueError" /\ ~Exposed)

\* C2: with store_measurement enabled, a supplied non-empty m_ops whose length
\* differs from n_channels makes the construction fail; it is never replaced by
\* operators derived from sc_ops.
C2_WrongMOpsRaises ==
    (/\ Built
     /\ args.store_measurement
     /\ Len(args.m_ops) > 0
     /\ Len(args.m_ops) # NCh)
    => (solver.raised = "ValueError" /\ ~Exposed)

\* C3 (as claimed, on the constructions with store_measurement enabled): a
\* supplied m_ops of length n_channels is kept unchanged, and with dW_factor
\* absent every one of the n_channels weights is the geometry default (1 for
\* homodyne, sqrt(2) for heterodyne).
C3_VerbatimMOpsDefaultWeights ==
    (/\ Built
     /\ args.store_measurement
     /\ Len(args.m_ops) > 0
     /\ Len(args.m_ops) = NCh
     /\ args.dW_factor = None)
    => (/\ Exposed
        /\ solver.m_ops = args.m_ops
        /\ Len(solver.dW_factors) = NCh
        /\ \A i \in 1..NCh : solver.dW_factors[i] = DefaultWeight)

\* C4 (as claimed, on the constructions with store_measurement enabled): a
\* scalar w, 0 included, resolves to [w]*n_channels; a sequence of length
\* len(sc_ops) under heterodyne resolves to each entry twice, adjacently; a
\* sequence of length n_channels resolves to itself.
C4_ReferenceResolution ==
    (Built /\ args.store_measurement)
    => (/\ (args.dW_factor.ty = "float")
            => (/\ Exposed
                /\ Len(solver.dW_factors) = NCh
                /\ \A i \in 1..NCh : solver.dW_factors[i] = args.dW_factor)
        /\ (args.dW_factor.ty = "list" /\ args.heterodyne /\ K > 0
                /\ Len(args.dW_factor.items) = K)
            => (/\ Exposed
                /\ Len(solver.dW_factors) = 2 * K
                /\ \A i \in 1..K :
                      /\ solver.dW_factors[2 * i - 1] = args.dW_factor.items[i]
                      /\ solver.dW_factors[2 * i] = args.dW_factor.items[i])
        /\ (args.dW_factor.ty = "list" /\ NCh > 0 /\ Len(args.dW_factor.items) = NCh)
            => (Exposed /\ solver.dW_factors = args.dW_factor.items))

\* what C5 says of a solver built with no m_ops and no dW_factor
DerivedWithDefaults ==
    /\ Exposed
    /\ Len(solver.m_ops) = NCh
    /\ Len(solver.dW_factors) = Len(solver.m_ops)
    /\ \A i \in 1..NCh : solver.dW_factors[i] = DefaultWeight
    /\ ~args.heterodyne => \A i \in 1..K : solver.m_ops[i] = OpPlusDag(args.sc_ops[i])
    /\ args.heterodyne =>
          \A i \in 1..K : /\ solver.m_ops[2 * i - 1] = OpPlusDag(args.sc_ops[i])
                          /\ solver.m_ops[2 * i] = OpQuadrature(args.sc_ops[i])

NoNoise == [none |-> TRUE, rows |-> <<>>]
Noise(rows) == [none |-> FALSE, rows |-> rows]

\* the rows of a noise increment: an entry per channel in each of r sub-step
\* rows, all entries different, with either sign
NoiseRows(n, r, sign) == [k \in 1..r |-> [c \in 1..n |-> sign * (k + c - 1)]]

\* the increments integrate may report: 1..MaxSub sub-step rows
Noises(n) == {NoiseRows(n, r, sign) : r \in 1..MaxSub, sign \in {0 - 1, 1}}

\* the state the integrator reaches from `state` under `noise`
Integrator_state(state, rows) == (state + Len(rows)) % 3

RestoreState(state) == [qobj |-> state]
Generator(seed) == [rng |-> seed]

OpCode(m) ==
    (CASE m.form = "op+op.dag" -> 1 [] m.form = "-1j*(op-op.dag)" -> 2 [] OTHER -> 3) + 3 * m.of

\* m_op.expect(t, state)
Expect(m, t, state) == Float(OpCode(m) * state.qobj + t)

(***************************************************************************)
(* StochasticTrajResult.                                                   *)
(***************************************************************************)
StochasticTrajResult_post_init(m_ops, dw_factor) ==
    [live |-> TRUE, times |-> <<>>, states |-> <<>>, noise |-> <<>>,
     m_ops |-> m_ops, dW_factor |-> dw_factor,
     measurements |-> [i \in 1..Len(m_ops) |-> <<>>]]

\* Result.add(t, state): the time and the state are recorded
Result_add(res, t, state) ==
    [res EXCEPT !.times = Append(@, t), !.states = Append(@, state)]

AppendNoiseSkipped(res, noise) == res

\* self.noise.append(noise)
AppendNoise(res, noise) == [res EXCEPT !.noise = Append(@, noise.rows)]

DtFromStart(times) == times[Len(times)] - times[1]

\* dt = self.times[-1] - self.times[-2]
Dt(times) == times[Len(times)] - times[Len(times) - 1]

\* noise / dt, element by element
NoiseOverDt(noise, dt) ==
    [r \in 1..Len(noise) |-> [c \in 1..Len(noise[r]) |-> NDivInt(Float(noise[r][c]), dt)]]

RECURSIVE SumRows(_, _, _)
SumRows(m, c, r) == IF r = 0 THEN Float(0) ELSE NAdd(SumRows(m, c, r - 1), m[r][c])

\* np.sum(noise, axis=0)
SumAxis0(m) == [c \in 1..Len(m[1]) |-> SumRows(m, c, Len(m))]

Min(a, b) == IF a < b THEN a ELSE b

\* the number of tuples zip(measurements, expects, noises, dW_factor) yields
ZipLen(res, noises) ==
    Min(Min(Len(res.measurements), Len(res.m_ops)), Min(Len(noises), Len(res.dW_factor)))

\* expect + dW * factor cannot be computed with a factor that is None
MeasureRaises(res, noises) == \E i \in 1..ZipLen(res, noises) : res.dW_factor[i] = None

\* _add_measurement(t, state, noise) when no factor is None
AddMeasurement(res, t, state, noise) ==
    LET expects == [i \in 1..Len(res.m_ops) |-> Expect(res.m_ops[i], t, state)]
        noises == SumAxis0(noise)
    IN  [res EXCEPT !.measurements =
            [i \in 1..Len(@) |->
                IF i <= ZipLen(res, noises)
                THEN Append(@[i], NAdd(expects[i], NMul(noises[i], res.dW_factor[i])))
                ELSE @[i]]]

\* whether add(t, state, noise) raises, after recording t, state and noise
AddRaises(res, store, noise) ==
    /\ noise # NoNoise
    /\ store
    /\ MeasureRaises(res, SumAxis0(NoiseOverDt(noise.rows, 1)))

\* add(t, state, noise) when it returns
StochasticTrajResult_add(res, store, t, state, noise) ==
    LET r1 == Result_add(res, t, state)
    IN  IF noise = NoNoise
        THEN r1
        ELSE IF store
        THEN AddMeasurement(AppendNoise(r1, noise), t, state,
                            NoiseOverDt(noise.rows, Dt(r1.times)))
        ELSE AppendNoise(r1, noise)

(***************************************************************************)
(* StochasticSolver._run_one_traj.                                         *)
(***************************************************************************)
LoopTimesWhole(tlist) == tlist

\* for t in tlist[1:]
LoopTimes(tlist) == Tail(tlist)

Call(op, t, state, noise, gen) ==
    [op |-> op, t |-> t, state |-> state, noise |-> noise, gen |-> gen]

NoGen == [rng |-> 0]

\* the lines up to the loop: the result, the generator, set_state, the first add
Traj_Begin ==
    /\ traj.pc = "start"
    /\ integrator' = [t |-> traj.tlist[1], state |-> traj.state, gen |-> Generator(traj.seed)]
    /\ result' = StochasticTrajResult_add(
                    StochasticTrajResult_post_init(solver.m_ops, solver.dW_factors),
                    args.store_measurement, traj.tlist[1], RestoreState(traj.state), NoNoise)
    /\ calls' = <<Call("set_state", traj.tlist[1], traj.state, NoNoise, Generator(traj.seed)),
                  Call("add", traj.tlist[1], RestoreState(traj.state), NoNoise, NoGen)>>
    /\ traj' = [traj EXCEPT !.pc = "loop", !.i = 1]
    /\ UNCHANGED <<args, solver, ens, pool>>

\* one turn of the loop: integrate returns and its tuple is added
Traj_Step ==
    /\ traj.pc = "loop"
    /\ traj.i <= Len(LoopTimes(traj.tlist))
    /\ \E rows \in Noises(NChannels(args)) :
        LET noise == Noise(rows)
            t == LoopTimes(traj.tlist)[traj.i]
            state == Integrator_state(integrator.state, rows)
            state_t == RestoreState(state)
        IN  /\ integrator' = [integrator EXCEPT !.t = t, !.state = state]
            /\ calls' = calls \o <<Call("integrate", t, state, noise, NoGen),
                                   Call("add", t, state_t, noise, NoGen)>>
            /\ IF AddRaises(result, args.store_measurement, noise)
               THEN /\ result' = NoResult
                    /\ traj' = [traj EXCEPT !.pc = "raised", !.error = "TypeError"]
               ELSE /\ result' = StochasticTrajResult_add(
                                    result, args.store_measurement, t, state_t, noise)
                    /\ traj' = [traj EXCEPT !.i = @ + 1]
    /\ UNCHANGED <<args, solver, ens, pool>>

\* one turn of the loop: integrate raises, and the failure leaves _run_one_traj
Traj_IntegrateFails ==
    /\ traj.pc = "loop"
    /\ traj.i <= Len(LoopTimes(traj.tlist))
    /\ calls' = Append(calls, Call("integrate raised", LoopTimes(traj.tlist)[traj.i],
                                   integrator.state, NoNoise, NoGen))
    /\ result' = NoResult
    /\ traj' = [traj EXCEPT !.pc = "raised", !.error = "NumericalFailure"]
    /\ UNCHANGED <<args, solver, integrator, ens, pool>>

\* return seed, result
Traj_Return ==
    /\ traj.pc = "loop"
    /\ traj.i > Len(LoopTimes(traj.tlist))
    /\ traj' = [traj EXCEPT !.pc = "done", !.ret = <<traj.seed, result>>]
    /\ UNCHANGED <<args, solver, integrator, result, calls, ens, pool>>

(***************************************************************************)
(* Inputs of a trajectory: a solver that was built, a seed and a strictly  *)
(* increasing time grid, uniform or not.                                   *)
(***************************************************************************)
TrajArgs ==
    {a \in Args :
        /\ Len(a.sc_ops) = 1
        /\ Len(a.m_ops) \in {0, NChannels(a)}
        /\ a.dW_factor \in {None, Float(2), List(<<Float(2), Float(3)>>)}
        /\ ~a.store_measurement => (a.m_ops = <<>> /\ a.dW_factor = None)
        /\ StochasticSolver_init(a).raised = "none"}

RECURSIVE Grid(_)
Grid(dts) == IF dts = <<>> THEN <<0>>
             ELSE LET g == Grid(SubSeq(dts, 1, Len(dts) - 1))
                  IN  Append(g, g[Len(g)] + dts[Len(dts)])

TimeGrids == {Grid(dts) : dts \in UNION {[1..n -> {1, 2}] : n \in 1..MaxSteps}}

Seeds == {3, 5}

InitTraj ==
    /\ args \in TrajArgs
    /\ solver = StochasticSolver_init(args)
    /\ traj \in [pc : {"start"}, seed : Seeds, state : {0}, tlist : TimeGrids,
                 i : {0}, ret : {Idle}, error : {"none"}]
    /\ integrator = NoIntegrator /\ result = NoResult /\ calls = <<>>
    /\ ens = Idle /\ pool = {}

NextTraj == Traj_Begin \/ Traj_Step \/ Traj_IntegrateFails \/ Traj_Return

SpecTraj == InitTraj /\ [][NextTraj]_vars

(***************************************************************************)
(* Claims about one trajectory (SpecTraj).                                 *)
(***************************************************************************)
Recording == args.store_measurement /\ result.live

\* C6: set_state is called once, first, with tlist[0], the initial state and
\* the generator of the seed; the initial point is added next with no noise;
\* then integrate is called once per time of tlist[1:], in grid order, and the
\* tuple it returns is added before the next integrate; the run returns its
\* seed with the result; an integrate that fails is the last call made.
C6_RunOrder ==
    /\ Len(calls) <= 2 * Len(traj.tlist)
    /\ traj.pc # "start" =>
          /\ Len(calls) >= 2
          /\ calls[1] = Call("set_state", traj.tlist[1], traj.state, NoNoise,
                             [rng |-> traj.seed])
          /\ calls[2] = Call("add", traj.tlist[1], [qobj |-> traj.state], NoNoise, NoGen)
    /\ \A p \in 2..Len(calls) : calls[p].op # "set_state"
    /\ \A p \in 3..Len(calls) :
          IF p % 2 = 1
          THEN /\ calls[p].op \in {"integrate", "integrate raised"}
               /\ calls[p].t = traj.tlist[(p + 1) \div 2]
               /\ calls[p - 1].op = "add"
          ELSE /\ calls[p].op = "add"
               /\ calls[p - 1].op = "integrate"
               /\ calls[p].t = calls[p - 1].t
               /\ calls[p].state = [qobj |-> calls[p - 1].state]
               /\ calls[p].noise = calls[p - 1].noise
               /\ ~calls[p].noise.none
    /\ \A p \in 1..Len(calls) :
          calls[p].op = "integrate raised" =>
              (p = Len(calls) /\ traj.pc = "raised" /\ traj.error = "NumericalFailure")
    /\ traj.pc = "done" =>
          /\ Len(calls) = 2 * Len(traj.tlist)
          /\ traj.ret = <<traj.seed, result>>
          /\ result.times = traj.tlist

C6_Witness ==
    /\ traj.pc = "done"
    /\ Len(traj.tlist) = 3
    /\ Len(calls) = 6
    /\ calls[5].op = "integrate"

C6_WitnessFailure ==
    /\ traj.pc = "raised"
    /\ Len(calls) = 5
    /\ calls[5].op = "integrate raised"

\* C7: with measurement recording enabled, after every add that returned,
\* every channel holds len(times) - 1 measurements and noise holds
\* len(times) - 1 increments; a completed trajectory over n points holds n - 1
\* per channel.
C7_RecordLengths ==
    Recording =>
        /\ Len(result.times) >= 1
        /\ Len(result.noise) = Len(result.times) - 1
        /\ Len(result.measurements) = NChannels(args)
        /\ \A i \in 1..Len(result.measurements) :
              Len(result.measurements[i]) = Len(result.times) - 1
        /\ traj.pc = "done" =>
              \A i \in 1..Len(result.measurements) :
                  Len(result.measurements[i]) = Len(traj.tlist) - 1

C7_Witness ==
    /\ Recording
    /\ traj.pc = "done"
    /\ Len(traj.tlist) = 3
    /\ Len(result.measurements) = 2
    /\ Len(result.measurements[2]) = 2

RECURSIVE IntSum(_, _, _)
IntSum(rows, c, r) == IF r = 0 THEN 0 ELSE IntSum(rows, c, r - 1) + rows[r][c]

\* expect + (sum over the sub-steps of the noise)[i] / dt * weight
Current(m, w, t, state, rows, i, dt) ==
    NAdd(Expect(m, t, state), NMul(NDivInt(Float(IntSum(rows, i, Len(rows))), dt), w))

\* C8: with recording enabled, the j-th measurement of channel i is
\* m_ops[i].expect(t, state) + (sum over the sub-step rows of the j-th noise)[i]
\* / dt * dW_factor[i], with t, state the (j+1)-th recorded point and dt the
\* interval that ends at t; the first add appends nothing.
C8_MeasurementValue ==
    Recording =>
        \A i \in 1..Len(result.measurements) :
            /\ Len(result.times) = 1 => result.measurements[i] = <<>>
            /\ \A j \in 1..Len(result.measurements[i]) :
                  result.measurements[i][j] =
                      Current(solver.m_ops[i], solver.dW_factors[i],
                              result.times[j + 1], result.states[j + 1],
                              result.noise[j], i,
                              result.times[j + 1] - result.times[j])

C8_Witness ==
    /\ Recording
    /\ traj.pc = "done"
    /\ traj.tlist = <<0, 1, 3>>
    /\ args.heterodyne
    /\ Len(result.noise[2]) = 2
    /\ Len(result.measurements[2]) = 2

(***************************************************************************)
(* StochasticResult, the result of the whole run.  MultiTrajResult is the  *)
(* generic multi-trajectory collaborator: it keeps the processors that     *)
(* were added, runs them in order on every trajectory it is given, and its *)
(* own _reduce_expect folds the trajectory's expectation values.           *)
(***************************************************************************)
\* the methods the class body of StochasticResult defines
StochasticResult_methods == {"_reduce_expect", "_post_init"}

\* the methods of the generic collaborator
MultiTrajResult_methods == {"_reduce_expect", "_post_init", "add", "add_processor"}

\* the class whose method self.<name> is
Lookup(name) ==
    IF name \in StochasticResult_methods THEN "StochasticResult"
    ELSE IF name \in MultiTrajResult_methods THEN "MultiTrajResult"
    ELSE "AttributeError"

\* MultiTrajResult._post_init: nothing reduced yet; the expectation values are
\* folded by the processor self._reduce_expect when there are e_ops
MultiTrajResult_post_init(e) ==
    [e EXCEPT !.num_trajectories = 0, !.sum_expect = 0,
              !.processors = IF e.raw_ops THEN <<"_reduce_expect">> ELSE <<>>]

\* StochasticResult._post_init
StochasticResult_post_init(e, store) ==
    LET e1 == [MultiTrajResult_post_init(e) EXCEPT !.measurement = <<>>]
    IN  IF store
        THEN IF Lookup("_reduce_measurements") = "AttributeError"
             THEN [e1 EXCEPT !.pc = "AttributeError"]
             ELSE [e1 EXCEPT !.pc = "ready",
                             !.processors = Append(@, "_reduce_measurements")]
        ELSE [e1 EXCEPT !.pc = "ready"]

\* np.array(list of per-channel lists)
NpArray(m) ==
    [form |-> "array",
     shape |-> IF m.rows = <<>> THEN <<0>> ELSE <<Len(m.rows), Len(m.rows[1])>>,
     rows |-> m.rows]

Size(shape) == IF Len(shape) = 1 THEN shape[1] ELSE shape[1] * shape[2]

\* whether a.reshape(-1, 2, last) raises: the free dimension cannot be found
ReshapeRaises(a) ==
    LET last == a.shape[Len(a.shape)]
    IN  2 * last = 0 \/ Size(a.shape) % (2 * last) # 0

\* StochasticResult._reduce_expect(trajectory), on the pair of the result and
\* the trajectories; the value of reshape is not kept
StochasticResult_reduce_expect(st, id, heterodyne) ==
    LET arr == NpArray(st.pool[id].measurements)
        p1 == [st.pool EXCEPT ![id].measurements = arr]
    IN  IF heterodyne /\ ReshapeRaises(arr)
        THEN [ens |-> [st.ens EXCEPT !.pc = "ValueError"], pool |-> p1]
        ELSE [ens |-> [st.ens EXCEPT !.measurement = Append(@, arr)], pool |-> p1]

\* MultiTrajResult._reduce_expect(trajectory): the running sum of the average
MultiTrajResult_reduce_expect(st, id) ==
    [st EXCEPT !.ens.sum_expect = @ + st.pool[id].expect]

\* one processor called on one trajectory
RunProcessor(name, st, id, heterodyne) ==
    IF st.ens.pc # "ready" THEN st
    ELSE IF Lookup(name) = "StochasticResult"
    THEN StochasticResult_reduce_expect(st, id, heterodyne)
    ELSE MultiTrajResult_reduce_expect(st, id)

RECURSIVE RunProcessors(_, _, _, _)
RunProcessors(names, st, id, heterodyne) ==
    IF names = <<>> THEN st
    ELSE RunProcessors(Tail(names), RunProcessor(Head(names), st, id, heterodyne),
                       id, heterodyne)

\* MultiTrajResult.add(trajectory): the reduce of one completed trajectory
MultiTrajResult_add(st, id, heterodyne) ==
    RunProcessors(st.ens.processors,
                  [st EXCEPT !.ens.num_trajectories = @ + 1,
                             !.ens.handed = @ \cup {id}],
                  id, heterodyne)

NewEnsemble(raw_ops) ==
    [pc |-> "new", raw_ops |-> raw_ops, processors |-> <<>>, measurement |-> <<>>,
     sum_expect |-> 0, num_trajectories |-> 0, handed |-> {}]

Ens_PostInit ==
    /\ ens.pc = "new"
    /\ ens' = StochasticResult_post_init(ens, args.store_measurement)
    /\ UNCHANGED <<args, solver, traj, integrator, result, calls, pool>>

Ens_Reduce ==
    /\ ens.pc = "ready"
    /\ \E id \in DOMAIN pool \ ens.handed :
          LET st == MultiTrajResult_add([ens |-> ens, pool |-> pool], id, args.heterodyne)
          IN  ens' = st.ens /\ pool' = st.pool
    /\ UNCHANGED <<args, solver, traj, integrator, result, calls>>

(***************************************************************************)
(* Inputs of a reduction: the completed trajectories of one run.  Without  *)
(* store_measurement a trajectory has no channel; with it, it has one list *)
(* per channel and one entry per step.                                     *)
(***************************************************************************)
ExpectValues == {1, 3}

MeasurementList(a, v, steps) ==
    [form |-> "list",
     rows |-> IF a.store_measurement
              THEN [i \in 1..NChannels(a) |-> [j \in 1..steps |-> Float(v + i + j)]]
              ELSE <<>>,
     shape |-> <<>>]

CompletedTraj(a, raw_ops, v, steps) ==
    [expect |-> IF raw_ops THEN v ELSE 0, measurements |-> MeasurementList(a, v, steps)]

EnsArgs == {a \in TrajArgs : a.m_ops = <<>> /\ a.dW_factor = None}

InitEnsemble ==
    /\ args \in EnsArgs
    /\ solver = StochasticSolver_init(args)
    /\ traj = Idle /\ integrator = NoIntegrator /\ result = NoResult /\ calls = <<>>
    /\ \E raw_ops \in BOOLEAN, steps \in 1..MaxSteps, n \in 1..MaxTraj :
          /\ ens = NewEnsemble(raw_ops)
          /\ pool \in [1..n -> {CompletedTraj(args, raw_ops, v, steps) : v \in ExpectValues}]

NextEnsemble == Ens_PostInit \/ Ens_Reduce

SpecEnsemble == InitEnsemble /\ [][NextEnsemble]_vars

(***************************************************************************)
(* Claims about the reduction (SpecEnsemble).                              *)
(***************************************************************************)
RECURSIVE SumExpect(_, _)
SumExpect(p, n) == IF n = 0 THEN 0 ELSE SumExpect(p, n - 1) + p[n].expect

AllHanded == ens.pc # "new" /\ ens.handed = DOMAIN pool

\* C9: whatever the order in which the trajectories of a run were reduced,
\* once all of them were, the running average holds the expectation values of
\* every one of them: its sum is the sum over the trajectories.
C9_ExpectFolded ==
    (ens.raw_ops /\ AllHanded)
    => (/\ ens.num_trajectories = Len(pool)
        /\ ens.sum_expect = SumExpect(pool, Len(pool)))

\* C10: with measurement recording enabled the result of the run can take
\* trajectories, and after reducing some of them its measurement collection
\* holds exactly one array of shape (n_channels, n_steps) per reduced
\* trajectory, none of which still holds its nested lists.
C10_OneArrayPerTrajectory ==
    (args.store_measurement /\ ens.pc # "new")
    => (/\ ens.pc = "ready"
        /\ Len(ens.measurement) = Cardinality(ens.handed)
        /\ \A i \in 1..Len(ens.measurement) :
              /\ ens.measurement[i].form = "array"
              /\ ens.measurement[i].shape[1] = NChannels(args)
        /\ \A id \in ens.handed : pool[id].measurements.form = "array")

====
